---- MODULE Spec2Model ----
(***************************************************************************)
(* Model of package mydb (src/mydb.go): a handle DB over one master        *)
(* *sql.DB and a fixed list of read replicas.  Reads are spread over the   *)
(* replicas by a mutex-protected round-robin counter and fail over to the  *)
(* next replica; everything else goes to the master.                       *)
(*                                                                         *)
(* Targets are numbered: Master is db.master, i \in 0..nrep-1 is           *)
(* db.readreplicas[i].  A target operation succeeds iff the target is up   *)
(* at the instant of the call; the environment may take a target down or   *)
(* bring it back between any two steps, so every sequence of outcomes of   *)
(* the underlying *sql.DB calls is a behaviour of the model.               *)
(*                                                                         *)
(* Spec      one client goroutine calling every method but Ping            *)
(* SpecPing  one goroutine calling Ping, and the goroutines Ping starts    *)
(* SpecConc  MaxProcs goroutines calling QueryRow concurrently             *)
(***************************************************************************)
EXTENDS Integers, Sequences, FiniteSets, Bags, TLC

\* ---------------------------------------------------------------- bounds
MaxReplicas == 3      \* New is called with 0..MaxReplicas replicas
MaxProcs == 2         \* client goroutines sharing one DB
MaxReads == 4         \* read calls issued on one DB

\* ------------------------------------------------------------- constants
noReadReplicaError == "Provide at least one read replica"
replicaPingFailError == <<"replica db ", "%d", " ping fail: ", "%s">>
masterPingFailError == <<"master's db ping fail: ", "%s">>
pingChannelCloseError == "Ping Channel is closed"
noReplicaAvailableError == "No replica is alive for reading data"

\* the error text of a *sql.DB that does not answer (mydb_test.go:36)
sqlClosedError == "sql: database is closed"

Procs == 1 .. MaxProcs
Master == -1          \* target id of db.master
NoTarget == -2        \* "no target": a value or error made by mydb itself

VARIABLES
  nrep,          \* len(db.readreplicas); 0 when New refused to build a DB
  newErr,        \* the error New returned ("" for nil)
  count,         \* db.count
  m,             \* db.m: 0 unlocked, else the goroutine holding it
  up,            \* up[t]: target t answers (t = Master or a replica index)
  pc,            \* pc[p]: where client goroutine p is
  op,            \* op[p]: the DB method p is in (or last returned from)
  query,         \* query[p]: the statement text given to Prepare
  tmp,           \* tmp[p]: the value of db.count loaded by db.count++
  replicaIndex,  \* replicaIndex[p]: local of QueryContext / prepare
  loopI,         \* loopI[p]: the loop variable i of the walk / Close
  ret,           \* ret[p]: what the last call returned
  trace,         \* trace[p]: target operations made by the current call
  errString,     \* errString[p]: local of PingContext
  pingChan,      \* pingChan[p]: the channel of PingContext: buf, cap, closed
  pinger,        \* pinger[p][i]: where the goroutine db.ping(ctx, i, ..) is
  pingErr,       \* pingErr[p][i]: the local e of db.ping(ctx, i, ..)
  pinged,        \* pinged[p][i]: the outcomes of the pings of replica i
  started,       \* number of read calls issued on the DB so far
  selLog         \* completed selector calls: <<value seen, value returned>>

vars == <<nrep, newErr, count, m, up, pc, op, query, tmp, replicaIndex,
          loopI, ret, trace, errString, pingChan, pinger, pingErr,
          pinged, started, selLog>>

\* the variables of a health check
pingVars == <<errString, pingChan, pinger, pingErr, pinged>>

Replicas == 0 .. (nrep - 1)
Targets == {Master} \cup Replicas

\* ------------------------------------------------------------ Go's int
\* db.count is a Go int; the model gives it the width of a 32-bit build
\* (TLC's own integers are 32 bits wide, so the 64-bit bounds cannot be written).
MaxInt == 2147483647
MinInt == -2147483647 - 1

\* x + 1 in Go's wrapping int arithmetic
IntInc(x) == IF x = MaxInt THEN MinInt ELSE x + 1

\* x % n in Go: the remainder has the sign of x (n > 0)
IntRem(x, n) ==
  IF x >= 0 THEN x % n
  ELSE LET r == x % n IN IF r = 0 THEN 0 ELSE r - n

\* ------------------------------------------------------------- results
None == [kind |-> "none", from |-> NoTarget, msg |-> <<>>]
\* a non-nil value (rows, row, stmt, result, tx) produced by target t
Value(t) == [kind |-> "value", from |-> t, msg |-> <<>>]
\* a nil error (Ping, Close)
Nil == [kind |-> "nil", from |-> NoTarget, msg |-> <<>>]
\* the error target t returned, handed on as it is
TargetErr(t) == [kind |-> "error", from |-> t, msg |-> <<sqlClosedError>>]
\* errors.New(text): an error made by mydb
NewError(text) == [kind |-> "error", from |-> NoTarget, msg |-> text]

Call(t, f, ok) == [t |-> t, f |-> f, ok |-> ok]

\* ------------------------------------------------------- statement text
\* A statement text is a sequence of one-character strings.
Letters == << <<"S", "s">>, <<"E", "e">>, <<"L", "l">>, <<"C", "c">>,
              <<"T", "t">>, <<"I", "i">>, <<"N", "n">>, <<"R", "r">>,
              <<"W", "w">>, <<"H", "h">> >>
WhiteSpace == {" ", "\t", "\n", "\r"}

\* unicode.ToLower on one character
LowerChar(c) ==
  IF \E k \in 1 .. Len(Letters) : Letters[k][1] = c
  THEN Letters[CHOOSE k \in 1 .. Len(Letters) : Letters[k][1] = c][2]
  ELSE c

\* strings.ToLower
ToLower(s) == [k \in 1 .. Len(s) |-> LowerChar(s[k])]

\* strings.TrimSpace: drop the leading and the trailing white space
TrimSpace(s) ==
  LET keep == {k \in 1 .. Len(s) : s[k] \notin WhiteSpace}
  IN IF keep = {} THEN <<>>
     ELSE LET lo == CHOOSE k \in keep : \A j \in keep : k <= j
              hi == CHOOSE k \in keep : \A j \in keep : k >= j
          IN SubSeq(s, lo, hi)

\* strings.HasPrefix
HasPrefix(s, prefix) ==
  /\ Len(s) >= Len(prefix)
  /\ SubSeq(s, 1, Len(prefix)) = prefix

selectKeyword == <<"s", "e", "l", "e", "c", "t">>

\* (a test that forgets to trim the text)
IsSelectUntrimmed(q) == HasPrefix(ToLower(q), selectKeyword)

\* PrepareContext's test: the statement is a data retrieval
IsSelect(q) == HasPrefix(ToLower(TrimSpace(q)), selectKeyword)

\* the statement texts given to Prepare
Queries ==
  { <<"S", "e", "l", "e", "c", "t", "1">>,
    <<"s", "e", "l", "e", "c", "t">>,
    <<" ", "\t", "s", "E", "L", "e", "C", "T", " ", "*", "\n">>,
    <<"I", "n", "s", "e", "r", "t">>,
    <<"s", "e", "l", "e", "c">>,
    <<"s", "e", " ", "l", "e", "c", "t">>,
    <<"w", "i", "t", "h", " ", "s", "e", "l", "e", "c", "t">>,
    <<" ", "\n">>,
    <<>> }

\* ----------------------------------------------------------- formatting
Digits == <<"0", "1", "2", "3", "4", "5", "6", "7", "8", "9">>

\* the verb %d on a non-negative int: its decimal digits
RECURSIVE Itoa(_)
Itoa(n) ==
  IF n < 10 THEN <<Digits[n + 1]>>
  ELSE Itoa(n \div 10) \o <<Digits[(n % 10) + 1]>>

\* fmt.Errorf(format, args...).Error(): each verb replaced by the next
\* argument (an argument is a piece of text: a sequence of tokens)
RECURSIVE Sprintf(_, _)
Sprintf(format, args) ==
  IF format = <<>> THEN <<>>
  ELSE IF Head(format) \in {"%d", "%s"}
       THEN Head(args) \o Sprintf(Tail(format), Tail(args))
       ELSE <<Head(format)>> \o Sprintf(Tail(format), args)

\* strings.Join(lines, sep)
RECURSIVE Join(_, _)
Join(lines, sep) ==
  IF lines = <<>> THEN <<>>
  ELSE IF Len(lines) = 1 THEN Head(lines)
       ELSE Head(lines) \o <<sep>> \o Join(Tail(lines), sep)

\* no channel yet
NoChan == [buf |-> <<>>, cap |-> 0, closed |-> FALSE]

\* (a constructor that accepts an empty list of replicas)
NewAcceptsNoReplicas(n) ==
  [db |-> TRUE, err |-> "", readreplicas |-> n, count |-> 0]

\* ------------------------------------------------------------------ New
\* New(master, readreplicas...) given n replicas: the DB or the error
New(n) ==
  IF n = 0
  THEN [db |-> FALSE, err |-> noReadReplicaError, readreplicas |-> 0, count |-> 0]
  ELSE [db |-> TRUE, err |-> "", readreplicas |-> n, count |-> 0]

Init ==
  \E n \in 0 .. MaxReplicas :
    /\ nrep = New(n).readreplicas
    /\ newErr = New(n).err
    /\ count = New(n).count
    /\ m = 0
    /\ up = [t \in {Master} \cup (0 .. (n - 1)) |-> TRUE]
    /\ pc = [p \in Procs |-> "idle"]
    /\ op = [p \in Procs |-> "none"]
    /\ query = [p \in Procs |-> <<>>]
    /\ tmp = [p \in Procs |-> 0]
    /\ replicaIndex = [p \in Procs |-> 0]
    /\ loopI = [p \in Procs |-> 0]
    /\ ret = [p \in Procs |-> None]
    /\ trace = [p \in Procs |-> <<>>]
    /\ errString = [p \in Procs |-> <<>>]
    /\ pingChan = [p \in Procs |-> NoChan]
    /\ pinger = [p \in Procs |-> [i \in 0 .. (n - 1) |-> "none"]]
    /\ pingErr = [p \in Procs |-> [i \in 0 .. (n - 1) |-> <<>>]]
    /\ pinged = [p \in Procs |-> [i \in 0 .. (n - 1) |-> <<>>]]
    /\ started = 0
    /\ selLog = <<>>

\* a method of the DB can be called by p: New gave a DB and p is in no call
CanCall(p) == nrep > 0 /\ pc[p] = "idle"

\* what every call does on entry: forget the locals of the previous call
Enter(p, f, q) ==
  /\ op' = [op EXCEPT ![p] = f]
  /\ query' = [query EXCEPT ![p] = q]
  /\ tmp' = [tmp EXCEPT ![p] = 0]
  /\ replicaIndex' = [replicaIndex EXCEPT ![p] = 0]
  /\ loopI' = [loopI EXCEPT ![p] = 0]
  /\ errString' = [errString EXCEPT ![p] = <<>>]
  /\ pingChan' = [pingChan EXCEPT ![p] = NoChan]
  /\ pinger' = [pinger EXCEPT ![p] = [i \in Replicas |-> "none"]]
  /\ pingErr' = [pingErr EXCEPT ![p] = [i \in Replicas |-> <<>>]]
  /\ pinged' = [pinged EXCEPT ![p] = [i \in Replicas |-> <<>>]]

\* a call that returns r after the target operations tr
Return(p, r, tr) ==
  /\ ret' = [ret EXCEPT ![p] = r]
  /\ trace' = [trace EXCEPT ![p] = tr]
  /\ pc' = [pc EXCEPT ![p] = "idle"]

\* -------------------------------------------------------- environment
\* a target stops answering (closed, as in mydb_test.go:79, or unreachable)
TargetDown(t) ==
  /\ up[t]
  /\ up' = [up EXCEPT ![t] = FALSE]
  /\ UNCHANGED <<pingVars, nrep, newErr, count, m, pc, op, query, tmp, replicaIndex,
                 loopI, ret, trace, started, selLog>>

\* a target answers again
TargetUp(t) ==
  /\ ~up[t]
  /\ up' = [up EXCEPT ![t] = TRUE]
  /\ UNCHANGED <<pingVars, nrep, newErr, count, m, pc, op, query, tmp, replicaIndex,
                 loopI, ret, trace, started, selLog>>

\* ------------------------------------------ readReplicaNumberRoundRobin
\* (a lock that excludes nobody)
MutexAlwaysFree == TRUE

\* db.m.Lock() can return
MutexFree == m = 0

\* db.m.Lock()
Lock(p) ==
  /\ pc[p] = "lock"
  /\ MutexFree
  /\ m' = p
  /\ pc' = [pc EXCEPT ![p] = "load"]
  /\ UNCHANGED <<pingVars, nrep, newErr, count, up, op, query, tmp, replicaIndex,
                 loopI, ret, trace, started, selLog>>

\* db.count++, the read of db.count
Load(p) ==
  /\ pc[p] = "load"
  /\ tmp' = [tmp EXCEPT ![p] = count]
  /\ pc' = [pc EXCEPT ![p] = "store"]
  /\ UNCHANGED <<pingVars, nrep, newErr, count, m, up, op, query, replicaIndex,
                 loopI, ret, trace, started, selLog>>

\* db.count++, the write of db.count
Store(p) ==
  /\ pc[p] = "store"
  /\ count' = IntInc(tmp[p])
  /\ pc' = [pc EXCEPT ![p] = "rem"]
  /\ UNCHANGED <<pingVars, nrep, newErr, m, up, op, query, tmp, replicaIndex,
                 loopI, ret, trace, started, selLog>>

\* (a selector that takes the remainder of the counter before the increment)
RoundRobinBeforeIncrement(c, n) == IntRem(c - 1, n)

\* the value of: db.count % len(db.readreplicas)
RoundRobin(c, n) == IntRem(c, n)

\* return db.count % len(db.readreplicas): the caller's replicaIndex
Rem(p) ==
  /\ pc[p] = "rem"
  /\ replicaIndex' = [replicaIndex EXCEPT ![p] = RoundRobin(count, nrep)]
  /\ selLog' = Append(selLog, <<tmp[p], RoundRobin(count, nrep)>>)
  /\ pc' = [pc EXCEPT ![p] = "unlock"]
  /\ UNCHANGED <<pingVars, nrep, newErr, count, m, up, op, query, tmp,
                 loopI, ret, trace, started>>

\* defer db.m.Unlock()
Unlock(p) ==
  /\ pc[p] = "unlock"
  /\ m' = 0
  /\ pc' = [pc EXCEPT ![p] = "first"]
  /\ UNCHANGED <<pingVars, nrep, newErr, count, up, op, query, tmp, replicaIndex,
                 loopI, ret, trace, started, selLog>>

\* ----------------------------------------------------- the failover walk
\* (a loop that starts one replica too far)
LoopStartSkipsOne(r) == r + 2

\* i := replicaIndex + 1
LoopStart(r) == r + 1

\* newIndex := i % len(db.readreplicas)
NewIndex(i, n) == IntRem(i, n)

\* (a walk that gives up when it wraps to the head of the list)
ExhaustedAtHead(newIndex, start) == newIndex = 0

\* (a walk that never sees that it is back where it started)
ExhaustedNever(newIndex, start) == FALSE

\* if newIndex == replicaIndex: the walk is back where it started
Exhausted(newIndex, start) == newIndex = start

\* db.readreplicas[replicaIndex].f(...): the first attempt of a walk
WalkFirst(p, f) ==
  LET r == replicaIndex[p] IN
  /\ pc[p] = "first"
  /\ IF r \notin Replicas
     THEN \* index out of range
          /\ ret' = [ret EXCEPT ![p] = [kind |-> "panic", from |-> NoTarget, msg |-> <<>>]]
          /\ pc' = [pc EXCEPT ![p] = "panic"]
          /\ UNCHANGED <<trace, loopI>>
     ELSE /\ trace' = [trace EXCEPT ![p] = Append(@, Call(r, f, up[r]))]
          /\ IF up[r]
             THEN /\ ret' = [ret EXCEPT ![p] = Value(r)]
                  /\ pc' = [pc EXCEPT ![p] = "idle"]
                  /\ UNCHANGED loopI
             ELSE /\ loopI' = [loopI EXCEPT ![p] = LoopStart(r)]
                  /\ pc' = [pc EXCEPT ![p] = "loop"]
                  /\ UNCHANGED ret
  /\ UNCHANGED <<pingVars, nrep, newErr, count, m, up, op, query, tmp, replicaIndex,
                 started, selLog>>

\* one turn of: for i := replicaIndex + 1; ; i++ { ... }
WalkNext(p, f) ==
  LET newIndex == NewIndex(loopI[p], nrep) IN
  /\ pc[p] = "loop"
  /\ IF Exhausted(newIndex, replicaIndex[p])
     THEN /\ ret' = [ret EXCEPT ![p] = NewError(<<noReplicaAvailableError>>)]
          /\ pc' = [pc EXCEPT ![p] = "idle"]
          /\ UNCHANGED <<trace, loopI>>
     ELSE /\ trace' = [trace EXCEPT ![p] = Append(@, Call(newIndex, f, up[newIndex]))]
          /\ IF up[newIndex]
             THEN /\ ret' = [ret EXCEPT ![p] = Value(newIndex)]
                  /\ pc' = [pc EXCEPT ![p] = "idle"]
                  /\ UNCHANGED loopI
             ELSE /\ loopI' = [loopI EXCEPT ![p] = IntInc(@)]
                  /\ UNCHANGED <<ret, pc>>
  /\ UNCHANGED <<pingVars, nrep, newErr, count, m, up, op, query, tmp, replicaIndex,
                 started, selLog>>

\* a read call starts: it goes to the round-robin selector first
EnterRead(p, f, q) ==
  /\ CanCall(p)
  /\ started < MaxReads
  /\ started' = started + 1
  /\ Enter(p, f, q)
  /\ ret' = [ret EXCEPT ![p] = None]
  /\ trace' = [trace EXCEPT ![p] = <<>>]
  /\ pc' = [pc EXCEPT ![p] = "lock"]
  /\ UNCHANGED <<nrep, newErr, count, m, up, selLog>>

\* --------------------------------------------------- Query, QueryContext
QueryContext(p) == EnterRead(p, "QueryContext", <<>>)

QueryContextFirst(p) == op[p] = "QueryContext" /\ WalkFirst(p, "QueryContext")

QueryContextNext(p) == op[p] = "QueryContext" /\ WalkNext(p, "QueryContext")

\* ---------------------------------------------- QueryRow, QueryRowContext
QueryRowContext(p) == EnterRead(p, "QueryRowContext", <<>>)

\* the *sql.Row of replica r: never nil, its error is kept for Scan
Row(r) == [kind |-> "value", from |-> r,
           msg |-> IF up[r] THEN <<>> ELSE <<sqlClosedError>>]

\* (a query-row that moves on to the next replica when the selected one fails)
QueryRowContextFirstWithFailover(p) ==
  LET r == replicaIndex[p]
      s == IntRem(r + 1, nrep)
  IN
  /\ pc[p] = "first"
  /\ op[p] = "QueryRowContext"
  /\ IF r \notin Replicas
     THEN /\ ret' = [ret EXCEPT ![p] = [kind |-> "panic", from |-> NoTarget, msg |-> <<>>]]
          /\ pc' = [pc EXCEPT ![p] = "panic"]
          /\ UNCHANGED trace
     ELSE IF up[r]
          THEN Return(p, Row(r), <<Call(r, "QueryRowContext", TRUE)>>)
          ELSE Return(p, Row(s), <<Call(r, "QueryRowContext", FALSE),
                                   Call(s, "QueryRowContext", up[s])>>)
  /\ UNCHANGED <<pingVars, nrep, newErr, count, m, up, op, query, tmp, replicaIndex,
                 loopI, started, selLog>>

QueryRowContextFirst(p) ==
  LET r == replicaIndex[p] IN
  /\ pc[p] = "first"
  /\ op[p] = "QueryRowContext"
  /\ IF r \notin Replicas
     THEN /\ ret' = [ret EXCEPT ![p] = [kind |-> "panic", from |-> NoTarget, msg |-> <<>>]]
          /\ pc' = [pc EXCEPT ![p] = "panic"]
          /\ UNCHANGED trace
     ELSE Return(p, Row(r), <<Call(r, "QueryRowContext", up[r])>>)
  /\ UNCHANGED <<pingVars, nrep, newErr, count, m, up, op, query, tmp, replicaIndex,
                 loopI, started, selLog>>

\* --------------------------------------------------- the master's methods
\* (a master call that falls back on the first replica when the master fails)
OnMasterWithFailover(p, f, q) ==
  /\ CanCall(p)
  /\ Enter(p, f, q)
  /\ IF up[Master]
     THEN Return(p, Value(Master), <<Call(Master, f, TRUE)>>)
     ELSE Return(p, IF up[0] THEN Value(0) ELSE TargetErr(0),
                 <<Call(Master, f, FALSE), Call(0, f, up[0])>>)
  /\ UNCHANGED <<nrep, newErr, count, m, up, started, selLog>>

\* (a master call that advances the round-robin counter)
OnMasterCounting(p, f, q) ==
  /\ CanCall(p)
  /\ Enter(p, f, q)
  /\ Return(p, IF up[Master] THEN Value(Master) ELSE TargetErr(Master),
            <<Call(Master, f, up[Master])>>)
  /\ count' = IntInc(count)
  /\ UNCHANGED <<nrep, newErr, m, up, started, selLog>>

\* db.master.f(...) and nothing else: the value or the error of the master
OnMaster(p, f, q) ==
  /\ CanCall(p)
  /\ Enter(p, f, q)
  /\ Return(p, IF up[Master] THEN Value(Master) ELSE TargetErr(Master),
            <<Call(Master, f, up[Master])>>)
  /\ UNCHANGED <<nrep, newErr, count, m, up, started, selLog>>

\* Exec, ExecContext
ExecContext(p) == OnMaster(p, "ExecContext", <<>>)

\* Begin, BeginTx
BeginTx(p) == OnMaster(p, "BeginTx", <<>>)

\* ------------------------------------------------ Prepare, PrepareContext
\* PrepareContext(ctx, q): on the master unless q is a data retrieval
PrepareContext(p, q) ==
  IF ~IsSelect(q)
  THEN OnMaster(p, "PrepareContext", q)
  ELSE EnterRead(p, "PrepareContext", q)

\* prepare: the walk over the replicas
prepareFirst(p) == op[p] = "PrepareContext" /\ WalkFirst(p, "PrepareContext")

prepareNext(p) == op[p] = "PrepareContext" /\ WalkNext(p, "PrepareContext")

\* ---------------------------------------------------------------- Close
\* t.Close() where the closes of the targets in fails return an error
CloseOf(t, fails) == IF t \in fails THEN TargetErr(t) ELSE Nil

\* (a loop that stops at the first close that fails)
RECURSIVE CloseLoopStopsOnError(_, _, _, _)
CloseLoopStopsOnError(i, err, tr, fails) ==
  IF i >= nrep \/ err.kind = "error"
  THEN [err |-> err, trace |-> tr]
  ELSE CloseLoopStopsOnError(i + 1, CloseOf(i, fails),
                             Append(tr, Call(i, "Close", i \notin fails)), fails)

\* for i := range db.readreplicas { err = db.readreplicas[i].Close() }
\* from replica i on, with err and the closes made so far
RECURSIVE CloseLoop(_, _, _, _)
CloseLoop(i, err, tr, fails) ==
  IF i >= nrep
  THEN [err |-> err, trace |-> tr]
  ELSE CloseLoop(i + 1, CloseOf(i, fails),
                 Append(tr, Call(i, "Close", i \notin fails)), fails)

\* Close: err := db.master.Close(), then the replicas, return err
Close(p, fails) ==
  LET done == CloseLoop(0, CloseOf(Master, fails),
                        <<Call(Master, "Close", Master \notin fails)>>, fails)
  IN
  /\ CanCall(p)
  /\ Enter(p, "Close", <<>>)
  /\ Return(p, done.err, done.trace)
  /\ up' = [t \in Targets |-> FALSE]
  /\ UNCHANGED <<nrep, newErr, count, m, started, selLog>>

\* ---------------------------------------------------- the pool settings
PoolSetters == {"SetConnMaxLifetime", "SetMaxIdleConns", "SetMaxOpenConns"}

\* f on the master, then on every replica in order; nothing is returned
SetPool(p, f) ==
  /\ CanCall(p)
  /\ Enter(p, f, <<>>)
  /\ Return(p, None,
            <<Call(Master, f, TRUE)>> \o [k \in 1 .. nrep |-> Call(k - 1, f, TRUE)])
  /\ UNCHANGED <<nrep, newErr, count, m, up, started, selLog>>

\* (a health check whose channel holds one response at a time)
PingContextSmallChan(p) ==
  /\ CanCall(p)
  /\ op' = [op EXCEPT ![p] = "PingContext"]
  /\ query' = [query EXCEPT ![p] = <<>>]
  /\ tmp' = [tmp EXCEPT ![p] = 0]
  /\ replicaIndex' = [replicaIndex EXCEPT ![p] = 0]
  /\ loopI' = [loopI EXCEPT ![p] = 0]
  /\ errString' = [errString EXCEPT ![p] =
        IF up[Master] THEN <<>>
        ELSE <<Sprintf(masterPingFailError, <<TargetErr(Master).msg>>)>>]
  /\ pingChan' = [pingChan EXCEPT ![p] = [buf |-> <<>>, cap |-> 1, closed |-> FALSE]]
  /\ pinger' = [pinger EXCEPT ![p] = [i \in Replicas |-> "none"]]
  /\ pingErr' = [pingErr EXCEPT ![p] = [i \in Replicas |-> <<>>]]
  /\ pinged' = [pinged EXCEPT ![p] = [i \in Replicas |-> <<>>]]
  /\ ret' = [ret EXCEPT ![p] = None]
  /\ trace' = [trace EXCEPT ![p] = <<Call(Master, "PingContext", up[Master])>>]
  /\ pc' = [pc EXCEPT ![p] = "go"]
  /\ UNCHANGED <<nrep, newErr, count, m, up, started, selLog>>

\* ---------------------------------------------------- Ping, PingContext
\* PingContext up to the go statements: the master's ping, make(chan)
PingContext(p) ==
  /\ CanCall(p)
  /\ op' = [op EXCEPT ![p] = "PingContext"]
  /\ query' = [query EXCEPT ![p] = <<>>]
  /\ tmp' = [tmp EXCEPT ![p] = 0]
  /\ replicaIndex' = [replicaIndex EXCEPT ![p] = 0]
  /\ loopI' = [loopI EXCEPT ![p] = 0]
  /\ errString' = [errString EXCEPT ![p] =
        IF up[Master] THEN <<>>
        ELSE <<Sprintf(masterPingFailError, <<TargetErr(Master).msg>>)>>]
  /\ pingChan' = [pingChan EXCEPT ![p] = [buf |-> <<>>, cap |-> nrep, closed |-> FALSE]]
  /\ pinger' = [pinger EXCEPT ![p] = [i \in Replicas |-> "none"]]
  /\ pingErr' = [pingErr EXCEPT ![p] = [i \in Replicas |-> <<>>]]
  /\ pinged' = [pinged EXCEPT ![p] = [i \in Replicas |-> <<>>]]
  /\ ret' = [ret EXCEPT ![p] = None]
  /\ trace' = [trace EXCEPT ![p] = <<Call(Master, "PingContext", up[Master])>>]
  /\ pc' = [pc EXCEPT ![p] = "go"]
  /\ UNCHANGED <<nrep, newErr, count, m, up, started, selLog>>

\* (a health check that gives up on the replicas when the master's ping failed)
PingGoUnlessMasterFailed(p) ==
  /\ pc[p] = "go"
  /\ IF loopI[p] < nrep /\ trace[p][1].ok
     THEN /\ pinger' = [pinger EXCEPT ![p][loopI[p]] = "ping"]
          /\ loopI' = [loopI EXCEPT ![p] = @ + 1]
          /\ UNCHANGED pc
     ELSE /\ loopI' = [loopI EXCEPT ![p] = 0]
          /\ pc' = [pc EXCEPT ![p] = "receive"]
          /\ UNCHANGED pinger
  /\ UNCHANGED <<nrep, newErr, count, m, up, op, query, tmp, replicaIndex,
                 ret, trace, errString, pingChan, pingErr, pinged, started,
                 selLog>>

\* for i := range db.readreplicas { go db.ping(ctx, i, pingChan) }
PingGo(p) ==
  /\ pc[p] = "go"
  /\ IF loopI[p] < nrep
     THEN /\ pinger' = [pinger EXCEPT ![p][loopI[p]] = "ping"]
          /\ loopI' = [loopI EXCEPT ![p] = @ + 1]
          /\ UNCHANGED pc
     ELSE /\ loopI' = [loopI EXCEPT ![p] = 0]
          /\ pc' = [pc EXCEPT ![p] = "receive"]
          /\ UNCHANGED pinger
  /\ UNCHANGED <<nrep, newErr, count, m, up, op, query, tmp, replicaIndex,
                 ret, trace, errString, pingChan, pingErr, pinged, started,
                 selLog>>

\* (a message that numbers the replicas from 0)
ReplicaOrdinalFromZero(i) == i

\* the replica number put in the message: i+1
ReplicaOrdinal(i) == i + 1

\* db.ping: db.readreplicas[i].PingContext(ctx) and the error e made of it
ping(p, i) ==
  /\ pinger[p][i] = "ping"
  /\ pingErr' = [pingErr EXCEPT ![p][i] =
        IF up[i] THEN <<>>
        ELSE Sprintf(replicaPingFailError, <<Itoa(ReplicaOrdinal(i)), TargetErr(i).msg>>)]
  /\ pinged' = [pinged EXCEPT ![p][i] = Append(@, up[i])]
  /\ pinger' = [pinger EXCEPT ![p][i] = "send"]
  /\ UNCHANGED <<nrep, newErr, count, m, up, pc, op, query, tmp, replicaIndex,
                 loopI, ret, trace, errString, pingChan, started, selLog>>

\* (a channel that hands out the latest response first)
pingSendInFront(p, i) ==
  /\ pinger[p][i] = "send"
  /\ IF pingChan[p].closed
     THEN /\ pinger' = [pinger EXCEPT ![p][i] = "panic"]
          /\ UNCHANGED pingChan
     ELSE /\ Len(pingChan[p].buf) < pingChan[p].cap
          /\ pingChan' = [pingChan EXCEPT ![p].buf = <<pingErr[p][i]>> \o @]
          /\ pinger' = [pinger EXCEPT ![p][i] = "done"]
  /\ UNCHANGED <<nrep, newErr, count, m, up, pc, op, query, tmp, replicaIndex,
                 loopI, ret, trace, errString, pingErr, pinged, started,
                 selLog>>

\* db.ping: pingChan <- pingChanResponse{e}
pingSend(p, i) ==
  /\ pinger[p][i] = "send"
  /\ IF pingChan[p].closed
     THEN \* send on closed channel
          /\ pinger' = [pinger EXCEPT ![p][i] = "panic"]
          /\ UNCHANGED pingChan
     ELSE /\ Len(pingChan[p].buf) < pingChan[p].cap
          /\ pingChan' = [pingChan EXCEPT ![p].buf = Append(@, pingErr[p][i])]
          /\ pinger' = [pinger EXCEPT ![p][i] = "done"]
  /\ UNCHANGED <<nrep, newErr, count, m, up, pc, op, query, tmp, replicaIndex,
                 loopI, ret, trace, errString, pingErr, pinged, started,
                 selLog>>

\* (a health check that reports only two failures or more)
PingResultOffByOne(lines) ==
  IF Len(lines) > 1 THEN NewError(Join(lines, "\n")) ELSE Nil

\* what PingContext returns once every response is in; the deferred
\* close(pingChan) runs with it
PingResult(lines) ==
  IF Len(lines) > 0 THEN NewError(Join(lines, "\n")) ELSE Nil

\* (a collection loop that runs one turn short, so that PingContext returns,
\* and its deferred close runs, while one response is still to come)
PingReceiveOneShort(p) ==
  /\ pc[p] = "receive"
  /\ IF loopI[p] < nrep - 1
     THEN IF pingChan[p].buf # <<>>
          THEN /\ pingChan' = [pingChan EXCEPT ![p].buf = Tail(@)]
               /\ errString' = [errString EXCEPT ![p] =
                     IF Head(pingChan[p].buf) # <<>>
                     THEN Append(@, Head(pingChan[p].buf)) ELSE @]
               /\ loopI' = [loopI EXCEPT ![p] = @ + 1]
               /\ UNCHANGED <<ret, pc>>
          ELSE /\ pingChan[p].closed
               /\ ret' = [ret EXCEPT ![p] = NewError(<<pingChannelCloseError>>)]
               /\ pc' = [pc EXCEPT ![p] = "idle"]
               /\ UNCHANGED <<pingChan, errString, loopI>>
     ELSE /\ ret' = [ret EXCEPT ![p] = PingResult(errString[p])]
          /\ pingChan' = [pingChan EXCEPT ![p].closed = TRUE]
          /\ pc' = [pc EXCEPT ![p] = "idle"]
          /\ UNCHANGED <<errString, loopI>>
  /\ UNCHANGED <<nrep, newErr, count, m, up, op, query, tmp, replicaIndex,
                 trace, pinger, pingErr, pinged, started, selLog>>

\* one turn of: for i := 0; i < len(db.readreplicas); i++ { <-pingChan ... }
\* and the return after the loop
PingReceive(p) ==
  /\ pc[p] = "receive"
  /\ IF loopI[p] < nrep
     THEN IF pingChan[p].buf # <<>>
          THEN /\ pingChan' = [pingChan EXCEPT ![p].buf = Tail(@)]
               /\ errString' = [errString EXCEPT ![p] =
                     IF Head(pingChan[p].buf) # <<>>
                     THEN Append(@, Head(pingChan[p].buf)) ELSE @]
               /\ loopI' = [loopI EXCEPT ![p] = @ + 1]
               /\ UNCHANGED <<ret, pc>>
          ELSE /\ pingChan[p].closed
               /\ ret' = [ret EXCEPT ![p] = NewError(<<pingChannelCloseError>>)]
               /\ pc' = [pc EXCEPT ![p] = "idle"]
               /\ UNCHANGED <<pingChan, errString, loopI>>
     ELSE /\ ret' = [ret EXCEPT ![p] = PingResult(errString[p])]
          /\ pingChan' = [pingChan EXCEPT ![p].closed = TRUE]
          /\ pc' = [pc EXCEPT ![p] = "idle"]
          /\ UNCHANGED <<errString, loopI>>
  /\ UNCHANGED <<nrep, newErr, count, m, up, op, query, tmp, replicaIndex,
                 trace, pinger, pingErr, pinged, started, selLog>>

\* ------------------------------------------------------- specifications
\* the steps of client goroutine p
Client(p) ==
  \/ QueryContext(p)
  \/ QueryContextFirst(p)
  \/ QueryContextNext(p)
  \/ QueryRowContext(p)
  \/ QueryRowContextFirst(p)
  \/ \E q \in Queries : PrepareContext(p, q)
  \/ prepareFirst(p)
  \/ prepareNext(p)
  \/ Lock(p)
  \/ Load(p)
  \/ Store(p)
  \/ Rem(p)
  \/ Unlock(p)
  \/ ExecContext(p)
  \/ BeginTx(p)
  \/ \E fails \in SUBSET Targets : Close(p, fails)
  \/ \E f \in PoolSetters : SetPool(p, f)

\* the steps of a health check called by goroutine p, and of its goroutines
HealthCheck(p) ==
  \/ PingContext(p)
  \/ PingGo(p)
  \/ \E i \in Replicas : ping(p, i)
  \/ \E i \in Replicas : pingSend(p, i)
  \/ PingReceive(p)

Env == \E t \in Targets : TargetDown(t) \/ TargetUp(t)

\* one client goroutine and the environment
Next == Env \/ Client(1)

Spec == Init /\ [][Next]_vars

\* the steps of a query-row call of goroutine p
Reader(p) ==
  \/ QueryRowContext(p)
  \/ QueryRowContextFirst(p)
  \/ Lock(p)
  \/ Load(p)
  \/ Store(p)
  \/ Rem(p)
  \/ Unlock(p)

\* MaxProcs goroutines calling QueryRow on one DB, and the environment
NextConc == Env \/ \E p \in Procs : Reader(p)

SpecConc == Init /\ [][NextConc]_vars

\* one goroutine calling Ping, the goroutines it starts and the environment
NextPing == Env \/ HealthCheck(1)

SpecPing == Init /\ [][NextPing]_vars

\* a step of a health check that goroutine p has started: of its two loops
\* or of a goroutine it started
PingStep(p) ==
  \/ PingGo(p)
  \/ PingReceive(p)
  \/ \E i \in Replicas : ping(p, i) \/ pingSend(p, i)

\* the scheduler does not stop a health check for ever while one of its
\* goroutines can run, and a ping that was started returns; that Ping is
\* called again, or that a target changes, is not required
FairPing == WF_vars(PingStep(1))

\* targets stop answering, at any moment and in any combination; that a
\* target answers again gives the pings of a call no outcome they do not
\* have without it
EnvDown == \E t \in Targets : TargetDown(t)

\* one goroutine calling Ping, the goroutines it starts and the failures
NextPingFair == EnvDown \/ HealthCheck(1)

\* the health check under a fair scheduler
SpecPingFair == Init /\ [][NextPingFair]_vars /\ FairPing

\* the DB after MaxInt - 1 read calls have returned: db.count is one short
\* of the largest int; started and selLog count from here
InitOverflow ==
  \E n \in 1 .. MaxReplicas :
    /\ nrep = New(n).readreplicas
    /\ newErr = New(n).err
    /\ count = MaxInt - 1
    /\ m = 0
    /\ up = [t \in {Master} \cup (0 .. (n - 1)) |-> TRUE]
    /\ pc = [p \in Procs |-> "idle"]
    /\ op = [p \in Procs |-> "none"]
    /\ query = [p \in Procs |-> <<>>]
    /\ tmp = [p \in Procs |-> 0]
    /\ replicaIndex = [p \in Procs |-> 0]
    /\ loopI = [p \in Procs |-> 0]
    /\ ret = [p \in Procs |-> None]
    /\ trace = [p \in Procs |-> <<>>]
    /\ errString = [p \in Procs |-> <<>>]
    /\ pingChan = [p \in Procs |-> NoChan]
    /\ pinger = [p \in Procs |-> [i \in 0 .. (n - 1) |-> "none"]]
    /\ pingErr = [p \in Procs |-> [i \in 0 .. (n - 1) |-> <<>>]]
    /\ pinged = [p \in Procs |-> [i \in 0 .. (n - 1) |-> <<>>]]
    /\ started = 0
    /\ selLog = <<>>

\* the steps of the queries and query-rows of goroutine p
Querier(p) ==
  \/ QueryContext(p)
  \/ QueryContextFirst(p)
  \/ QueryContextNext(p)
  \/ QueryRowContext(p)
  \/ QueryRowContextFirst(p)
  \/ Lock(p)
  \/ Load(p)
  \/ Store(p)
  \/ Rem(p)
  \/ Unlock(p)

\* one goroutine that goes on reading on a long-lived DB, and the environment
NextOverflow == Env \/ Querier(1)

SpecOverflow == InitOverflow /\ [][NextOverflow]_vars

\* ================================================================ claims
\* goroutine p is back from a call
Returned(p) == pc[p] = "idle" /\ op[p] # "none"

\* the texts of Queries that begin with "select" once trimmed and lower-cased
SelectTexts ==
  { <<"S", "e", "l", "e", "c", "t", "1">>,
    <<"s", "e", "l", "e", "c", "t">>,
    <<" ", "\t", "s", "E", "L", "e", "C", "T", " ", "*", "\n">> }

\* p is in (or back from) a query or a prepare of a read statement
InWalk(p) ==
  \/ op[p] = "QueryContext"
  \/ op[p] = "PrepareContext" /\ query[p] \in SelectTexts

\* p is in (or back from) any of the three read calls
InRead(p) == InWalk(p) \/ op[p] = "QueryRowContext"

\* the error "no replica available", with no rows or statement
NoReplicaAvailable ==
  [kind |-> "error", from |-> NoTarget,
   msg |-> <<"No replica is alive for reading data">>]

\* the targets of the operations in a trace, in order
TargetsOf(tr) == [j \in 1 .. Len(tr) |-> tr[j].t]

\* C1: with one client on a fresh DB, the k-th read call whose selected
\* replica answers is served by the replica at position k mod N (started is
\* k: the read calls issued so far, this one included).
C1_RoundRobinOrder ==
  \A p \in Procs :
    (Returned(p) /\ InRead(p) /\ Len(trace[p]) = 1 /\ trace[p][1].ok) =>
      /\ trace[p][1].t = started % nrep
      /\ ret[p].kind = "value"
      /\ ret[p].from = started % nrep

\* C1 witness: three replicas, the fourth read is served by position 1
C1_Witness ==
  /\ nrep = 3 /\ started = 4
  /\ Returned(1) /\ op[1] = "QueryContext"
  /\ trace[1] = <<Call(1, "QueryContext", TRUE)>>
  /\ ret[1].from = 1

\* C2: in a query or a prepare of a read statement the attempts are made on
\* s, s+1, s+2, ... (mod N) from the selected index s, each at most once,
\* every attempt but the last has failed, and the call returns the value of
\* the first replica that answers; no replica after it is attempted.
C2_WalkOrder ==
  \A p \in Procs :
    (InWalk(p) /\ pc[p] \in {"first", "loop", "idle"}) =>
      /\ Len(trace[p]) <= nrep
      /\ \A j \in 1 .. Len(trace[p]) :
           /\ trace[p][j].t = (replicaIndex[p] + j - 1) % nrep
           /\ trace[p][j].f = op[p]
           /\ j < Len(trace[p]) => ~trace[p][j].ok
      /\ pc[p] = "loop" => \A j \in 1 .. Len(trace[p]) : ~trace[p][j].ok
      /\ (pc[p] = "idle" /\ Len(trace[p]) > 0 /\ trace[p][Len(trace[p])].ok) =>
           /\ ret[p].kind = "value"
           /\ ret[p].from = trace[p][Len(trace[p])].t
      /\ (pc[p] = "idle" /\ ret[p].kind = "value") =>
           /\ Len(trace[p]) > 0
           /\ trace[p][Len(trace[p])].ok

\* C2 witness: a prepare that starts at position 2 of 3, wraps around and
\* is served by position 1
C2_Witness ==
  /\ nrep = 3
  /\ Returned(1) /\ op[1] = "PrepareContext"
  /\ trace[1] = <<Call(2, "PrepareContext", FALSE), Call(0, "PrepareContext", FALSE),
                  Call(1, "PrepareContext", TRUE)>>
  /\ ret[1] = [kind |-> "value", from |-> 1, msg |-> <<>>]

\* C3: a query or a prepare of a read statement returns the error "no
\* replica available" (and no value, and none of the replicas' own errors)
\* exactly when every replica failed the operation during the call; in every
\* other case it returns the value of a replica that answered.
C3_NoReplicaIffAllFail ==
  \A p \in Procs :
    (Returned(p) /\ InWalk(p)) =>
      /\ ret[p] = NoReplicaAvailable <=>
           \A r \in Replicas :
             \E j \in 1 .. Len(trace[p]) : trace[p][j].t = r /\ ~trace[p][j].ok
      /\ ret[p] # NoReplicaAvailable =>
           /\ ret[p].kind = "value"
           /\ \E j \in 1 .. Len(trace[p]) :
                trace[p][j].t = ret[p].from /\ trace[p][j].ok

\* C3 witness: three replicas, all fail, the query returns the error
C3_Witness ==
  /\ nrep = 3
  /\ Returned(1) /\ op[1] = "QueryContext"
  /\ Len(trace[1]) = 3
  /\ ret[1] = NoReplicaAvailable

\* p is back from a health check
PingReturned(p) == Returned(p) /\ op[p] = "PingContext"

\* the master's ping of p's health check failed
MasterPingFailed(p) == ~trace[p][1].ok

\* the replicas of which a ping of p's health check failed
FailedPings(p) ==
  {i \in Replicas : \E k \in 1 .. Len(pinged[p][i]) : ~pinged[p][i][k]}

\* C4: a health check returns nil if and only if the ping of the master and
\* every ping of a replica made by the call succeeded; otherwise it returns
\* an error.
C4_PingNilIffAllOk ==
  \A p \in Procs :
    PingReturned(p) =>
      /\ ret[p].kind \in {"nil", "error"}
      /\ ret[p].kind = "nil" <=> (~MasterPingFailed(p) /\ FailedPings(p) = {})

\* C4 witness: the master and two replicas answer, one replica does not,
\* and the health check returns an error
C4_Witness ==
  /\ nrep = 3
  /\ PingReturned(1)
  /\ ~MasterPingFailed(1)
  /\ FailedPings(1) = {2}
  /\ ret[1].kind = "error"

\* a message cut at its newlines
RECURSIVE SplitLines(_)
SplitLines(msg) ==
  IF \A k \in 1 .. Len(msg) : msg[k] # "\n" THEN <<msg>>
  ELSE LET k == CHOOSE k \in 1 .. Len(msg) :
                  msg[k] = "\n" /\ \A j \in 1 .. (k - 1) : msg[j] # "\n"
       IN <<SubSeq(msg, 1, k - 1)>> \o SplitLines(SubSeq(msg, k + 1, Len(msg)))

\* the line of a failed master, and of a failed replica at position i
MasterLine == <<"master's db ping fail: ", "sql: database is closed">>
ReplicaLine(i) ==
  <<"replica db ", <<"1", "2", "3", "4", "5", "6">>[i + 1], " ping fail: ",
    "sql: database is closed">>

\* C5: the message of a failed health check has exactly one line per target
\* whose ping failed and none for the others: the master's line, first, if
\* the master failed, and for each failed replica at position i the line
\* that names it by i+1.
C5_PingMessageLines ==
  \A p \in Procs :
    (PingReturned(p) /\ ret[p].kind = "error") =>
      LET lines == SplitLines(ret[p].msg)
          first == IF MasterPingFailed(p) THEN 1 ELSE 0
      IN /\ Len(lines) = first + Cardinality(FailedPings(p))
         /\ MasterPingFailed(p) => lines[1] = MasterLine
         /\ \A i \in FailedPings(p) :
              \E k \in (first + 1) .. Len(lines) : lines[k] = ReplicaLine(i)
         /\ \A k \in (first + 1) .. Len(lines) :
              \E i \in FailedPings(p) : lines[k] = ReplicaLine(i)

\* C5 witness: the master and replica 1 (position 0) are down, the other two
\* replicas answer
C5_Witness ==
  /\ nrep = 3
  /\ PingReturned(1)
  /\ ret[1].kind = "error"
  /\ ret[1].msg = <<"master's db ping fail: ", "sql: database is closed", "\n",
                    "replica db ", "1", " ping fail: ", "sql: database is closed">>
  /\ pinged[1][1] = <<TRUE>> /\ pinged[1][2] = <<TRUE>>

\* p is back from Close
CloseReturned(p) == Returned(p) /\ op[p] = "Close"

\* the closes of a trace that failed
FailedCloses(tr) == {j \in 1 .. Len(tr) : ~tr[j].ok}

\* C6 (as claimed): when the close of one or more targets fails, Close
\* returns the error of the last target, in the order master, replicas
\* 1..N, whose close failed.
C6_CloseReturnsLastFailure ==
  \A p \in Procs :
    (CloseReturned(p) /\ FailedCloses(trace[p]) # {}) =>
      LET last == CHOOSE j \in FailedCloses(trace[p]) :
                    \A k \in FailedCloses(trace[p]) : k <= j
      IN /\ ret[p].kind = "error"
         /\ ret[p].from = trace[p][last].t

\* C7: Close closes the master first and then every replica in order, each
\* exactly once, whichever of the closes fail; if all succeed it returns nil.
C7_CloseOrder ==
  \A p \in Procs :
    CloseReturned(p) =>
      /\ TargetsOf(trace[p]) = [j \in 1 .. (nrep + 1) |-> j - 2]
      /\ \A j \in 1 .. Len(trace[p]) : trace[p][j].f = "Close"
      /\ FailedCloses(trace[p]) = {} => ret[p].kind = "nil"

\* C7 witness: three replicas; the closes of the master and of the second
\* replica fail, and all four targets were closed
C7_Witness ==
  /\ nrep = 3
  /\ CloseReturned(1)
  /\ Len(trace[1]) = 4
  /\ FailedCloses(trace[1]) = {1, 3}

\* p is back from a call of the write path
WriteReturned(p) ==
  /\ Returned(p)
  /\ \/ op[p] \in {"ExecContext", "BeginTx"}
     \/ op[p] = "PrepareContext" /\ query[p] \notin SelectTexts

\* C8: execute, begin-transaction and the prepare of a statement that is not
\* a read make exactly one operation, on the master, and none on a replica;
\* they return the master's value, or the master's own error as it is.
C8_WritePathMasterOnly ==
  \A p \in Procs :
    WriteReturned(p) =>
      /\ Len(trace[p]) = 1
      /\ trace[p][1].t = -1
      /\ trace[p][1].f = op[p]
      /\ ret[p].from = -1
      /\ ret[p].kind = IF trace[p][1].ok THEN "value" ELSE "error"
      /\ ret[p].msg = IF trace[p][1].ok THEN <<>> ELSE <<"sql: database is closed">>

\* C8 witness: the master is down and all three replicas are up; execute
\* returns the master's error
C8_Witness ==
  /\ nrep = 3
  /\ Returned(1) /\ op[1] = "ExecContext"
  /\ ~up[Master] /\ \A r \in Replicas : up[r]
  /\ ret[1].kind = "error" /\ ret[1].from = Master

\* C9, the routing: a prepare whose text begins with "select" (trimmed,
\* lower-cased) touches replicas only, starting at the replica the selector
\* gives; a prepare of any other text makes one operation, on the master.
C9_Routing ==
  \A p \in Procs :
    op[p] = "PrepareContext" =>
      IF query[p] \in SelectTexts
      THEN /\ \A j \in 1 .. Len(trace[p]) : trace[p][j].t \in Replicas
           /\ Returned(p) =>
                /\ Len(trace[p]) >= 1
                /\ trace[p][1].t = started % nrep
                /\ ret[p].from \in Replicas \cup {NoTarget}
      ELSE /\ pc[p] = "idle"
           /\ TargetsOf(trace[p]) = <<-1>>

\* C9, the counter: a step that leaves p in a prepare of a text that does
\* not begin with "select" leaves the round-robin counter as it was.
C9_CounterKept ==
  \A p \in Procs :
    (op'[p] = "PrepareContext" /\ query'[p] \notin SelectTexts) => count' = count

\* C9: Prepare routes by the prefix test on the trimmed, lower-cased text:
\* reads go to the replicas through the selector and the walk, everything
\* else to the master only, without advancing the round-robin counter.
C9_PrepareRouting == []C9_Routing /\ [][C9_CounterKept]_vars

\* C9 witness: a text with white space around a mixed-case "select" was
\* prepared on the second replica tried
C9_Witness ==
  /\ Returned(1) /\ op[1] = "PrepareContext"
  /\ query[1] = <<" ", "\t", "s", "E", "L", "e", "C", "T", " ", "*", "\n">>
  /\ Len(trace[1]) = 2
  /\ ret[1].kind = "value"

\* the number of selector calls in the log that returned v
Returns(v) == Cardinality({k \in 1 .. Len(selLog) : selLog[k][2] = v})

\* no goroutine is inside readReplicaNumberRoundRobin
NoneInSelector == \A p \in Procs : pc[p] \notin {"lock", "load", "store", "rem", "unlock"}

\* C10: under every interleaving of concurrent read calls no two selector
\* calls see the same value of the counter before their increment, and once
\* M calls are through (from counter 0) the counter is M and the values
\* returned are, as a multiset, 1 mod N, ..., M mod N.
C10_NoLostUpdate ==
  /\ \A j, k \in 1 .. Len(selLog) : j # k => selLog[j][1] # selLog[k][1]
  /\ NoneInSelector =>
       /\ count = Len(selLog)
       /\ \A v \in Replicas :
            Returns(v) = Cardinality({k \in 1 .. Len(selLog) : k % nrep = v})

\* C10 witness: one goroutine waits for the lock that the other holds in the
\* middle of its increment, after two calls have gone through
C10_Witness ==
  /\ pc[1] = "lock" /\ pc[2] = "store" /\ m = 2
  /\ Len(selLog) = 2

\* C11: in every health check the master is pinged exactly once, and before
\* any goroutine of a replica is started; whether or not that ping failed,
\* every replica's goroutine is started before the call collects, no replica
\* is ever pinged twice, and when the call returns each has been pinged
\* exactly once.
C11_PingEachOnce ==
  \A p \in Procs :
    /\ (\E i \in Replicas : pinger[p][i] # "none" \/ pinged[p][i] # <<>>) =>
         /\ op[p] = "PingContext"
         /\ Len(trace[p]) = 1
         /\ trace[p][1].t = -1
         /\ trace[p][1].f = "PingContext"
    /\ op[p] = "PingContext" =>
         /\ TargetsOf(trace[p]) = <<-1>>
         /\ \A i \in Replicas :
              /\ Len(pinged[p][i]) <= 1
              /\ Len(pinged[p][i]) = 1 <=> pinger[p][i] \in {"send", "done"}
              /\ pc[p] = "receive" => pinger[p][i] # "none"
              /\ pc[p] = "idle" => Len(pinged[p][i]) = 1

\* C11 witness: the master's ping failed, and the three replicas were each
\* pinged once all the same: the first failed, the other two answered
C11_Witness ==
  /\ nrep = 3
  /\ PingReturned(1)
  /\ trace[1] = <<[t |-> -1, f |-> "PingContext", ok |-> FALSE]>>
  /\ pinged[1] = [i \in 0 .. 2 |-> <<i # 0>>]

\* p is back from a query-row
QueryRowReturned(p) == Returned(p) /\ op[p] = "QueryRowContext"

\* C12: a query-row goes through the selector once and makes exactly one
\* operation, the query on the replica the selector gave; it contacts no
\* other replica and not the master, also when that replica is down and
\* others are up, and it returns a row of that replica in every case (the
\* error, if any, is carried by the row).
C12_QueryRowNoFailover ==
  \A p \in Procs :
    QueryRowReturned(p) =>
      /\ Len(selLog) = started
      /\ count = started
      /\ selLog[started][2] = started % nrep
      /\ Len(trace[p]) = 1
      /\ trace[p][1].t = started % nrep
      /\ trace[p][1].f = "QueryRowContext"
      /\ ret[p].kind = "value"
      /\ ret[p].from = trace[p][1].t
      /\ ret[p].msg = IF trace[p][1].ok THEN <<>> ELSE <<"sql: database is closed">>

\* C12 witness: the fourth read call is a query-row; its replica (position 1
\* of 3) is down, the master and the other replicas are up, and the row of
\* the replica that is down is what it returns
C12_Witness ==
  /\ nrep = 3 /\ started = 4
  /\ QueryRowReturned(1)
  /\ up = [t \in -1 .. 2 |-> t # 1]
  /\ trace[1] = <<[t |-> 1, f |-> "QueryRowContext", ok |-> FALSE]>>
  /\ ret[1] = [kind |-> "value", from |-> 1, msg |-> <<"sql: database is closed">>]

\* the number of replicas given to New: the targets but the master
GivenReplicas == Cardinality(DOMAIN up) - 1

\* C13, the construction: New fails with the error "Provide at least one read
\* replica", and gives no DB (no method is ever called), exactly when no
\* replica is given; with one or more it gives no error and a DB that has
\* as many replicas as were given.
C13_Constructed ==
  /\ newErr = "Provide at least one read replica" <=> GivenReplicas = 0
  /\ GivenReplicas = 0 =>
       /\ nrep = 0
       /\ \A p \in Procs : op[p] = "none" /\ pc[p] = "idle" /\ trace[p] = <<>>
  /\ GivenReplicas >= 1 =>
       /\ newErr = ""
       /\ nrep = GivenReplicas
       /\ nrep >= 1

\* C13, the list is fixed: no step changes the number of replicas of the DB
C13_ReplicasKept == nrep' = nrep /\ DOMAIN up' = DOMAIN up

\* C13: construction fails with the configuration error, and gives no DB,
\* if and only if no replica is given; otherwise the DB has one replica or
\* more and that number never changes.
C13_NewAndFixed == []C13_Constructed /\ [][C13_ReplicasKept]_vars

\* C13 witness: New without replicas has returned the error; the master it
\* was given has gone down since, and there is no DB to call
C13_Witness ==
  /\ DOMAIN up = {-1} /\ ~up[-1]
  /\ newErr = "Provide at least one read replica"
  /\ nrep = 0

\* every attempt of a trace failed
AllFailed(tr) == \A j \in 1 .. Len(tr) : ~tr[j].ok

\* C14: at every point of a query or of a prepare of a read statement, no
\* replica has been attempted twice and at most N attempts have been made;
\* once N attempts have failed the loop is back at the start index and
\* stops; a call of which every attempt failed has made exactly N attempts
\* (one when N = 1), one per replica, and returns "no replica available".
C14_WalkBounded ==
  \A p \in Procs :
    InWalk(p) =>
      /\ Len(trace[p]) <= nrep
      /\ \A j, k \in 1 .. Len(trace[p]) : j # k => trace[p][j].t # trace[p][k].t
      /\ (pc[p] = "loop" /\ Len(trace[p]) = nrep) =>
           loopI[p] % nrep = replicaIndex[p]
      /\ (Returned(p) /\ AllFailed(trace[p])) =>
           /\ Len(trace[p]) = nrep
           /\ {trace[p][j].t : j \in 1 .. Len(trace[p])} = Replicas
           /\ ret[p] = NoReplicaAvailable
      /\ (Returned(p) /\ ret[p] = NoReplicaAvailable) =>
           /\ AllFailed(trace[p])
           /\ Len(trace[p]) = nrep

\* C14 witness: a single replica, which is down: the query made one attempt
\* and returned "no replica available"
C14_Witness ==
  /\ nrep = 1
  /\ Returned(1) /\ op[1] = "QueryContext"
  /\ trace[1] = <<[t |-> 0, f |-> "QueryContext", ok |-> FALSE]>>
  /\ ret[1] = NoReplicaAvailable

\* the goroutines of p's health check that have put their response on the
\* channel
Sent(p) == {i \in Replicas : pinger[p][i] = "done"}

\* C15: the channel of a health check is closed only when the call has
\* returned after collecting N responses, one of each replica's goroutine;
\* every response sent is either still in the channel or collected; no
\* goroutine ever sends on the closed channel, the collecting loop never
\* finds the channel closed, and the error "Ping Channel is closed" is never
\* returned.
C15_ChannelClosedLast ==
  \A p \in Procs :
    /\ \A i \in Replicas : pinger[p][i] # "panic"
    /\ pc[p] = "receive" =>
         /\ ~pingChan[p].closed
         /\ loopI[p] + Len(pingChan[p].buf) = Cardinality(Sent(p))
    /\ pingChan[p].closed =>
         /\ PingReturned(p)
         /\ loopI[p] = nrep
         /\ Sent(p) = Replicas
         /\ pingChan[p].buf = <<>>
    /\ ret[p].msg # <<"Ping Channel is closed">>

\* C15 witness: with three replicas, the call has returned and closed the
\* channel after three responses, of which two were failures
C15_Witness ==
  /\ nrep = 3
  /\ PingReturned(1)
  /\ pingChan[1] = [buf |-> <<>>, cap |-> 3, closed |-> TRUE]
  /\ loopI[1] = 3
  /\ Len(errString[1]) = 2 /\ trace[1][1].ok
  /\ \A i \in 0 .. 2 : pinger[1][i] = "done"

\* the failures among the responses of a channel buffer, in order
FailuresIn(buf) == SelectSeq(buf, LAMBDA e : e # <<>>)

\* the lines of failed replicas that p's health check has so far: those it
\* has collected, then those that wait in the channel
ReplicaLinesSoFar(p) ==
  (IF MasterPingFailed(p) THEN Tail(errString[p]) ELSE errString[p])
    \o FailuresIn(pingChan[p].buf)

\* the goroutines of failed pings that put their response on the channel in
\* this step
FailureSent(p) ==
  {i \in Replicas :
     pinger[p][i] = "send" /\ pinger'[p][i] = "done" /\ ~pinged[p][i][1]}

\* C16, the message: the message of a failed health check is its lines so
\* far joined by newlines; the master's line, if the master failed, is the
\* first of them and is found nowhere else.
C16_MasterLineFirst ==
  \A p \in Procs :
    (PingReturned(p) /\ ret[p].kind = "error") =>
      LET lines == SplitLines(ret[p].msg)
          first == IF MasterPingFailed(p) THEN 1 ELSE 0
      IN /\ MasterPingFailed(p) => lines[1] = MasterLine
         /\ \A k \in (first + 1) .. Len(lines) : lines[k] # MasterLine
         /\ SubSeq(lines, first + 1, Len(lines)) = ReplicaLinesSoFar(p)

\* C16, the order: during a health check, the line of a failed replica is
\* added at the end of the lines so far at the moment its goroutine puts
\* the response on the channel; no other step adds, drops or moves a line.
C16_LinesInSendOrder ==
  \A p \in Procs :
    (op[p] = "PingContext" /\ pc[p] # "idle") =>
      IF FailureSent(p) = {}
      THEN ReplicaLinesSoFar(p)' = ReplicaLinesSoFar(p)
      ELSE \E i \in FailureSent(p) :
             ReplicaLinesSoFar(p)' = Append(ReplicaLinesSoFar(p), ReplicaLine(i))

\* C16, the race: every goroutine that has its response ready while the
\* call collects can be the next one to put it on the channel.
C16_AnyCanSendNext ==
  \A p \in Procs : \A i \in Replicas :
    (pinger[p][i] = "send" /\ pc[p] \in {"go", "receive"}) =>
      ENABLED (NextPing /\ pinger'[p][i] = "done")

\* C16: in the message of a failed health check the master's line, if any,
\* comes first, and the lines of the failed replicas follow in the order in
\* which their goroutines put the responses on the channel, which is any
\* order: not the order of the replicas in the list.
C16_MessageOrder ==
  [](C16_MasterLineFirst /\ C16_AnyCanSendNext) /\ [][C16_LinesInSendOrder]_vars

\* C16 witness: master and all three replicas failed; the message has the
\* master's line first, then the lines of replicas 3, 1, 2 in that order
C16_Witness ==
  /\ nrep = 3
  /\ PingReturned(1)
  /\ SplitLines(ret[1].msg) =
       <<MasterLine, ReplicaLine(2), ReplicaLine(0), ReplicaLine(1)>>

\* C17 (as claimed): every index the selector returns, also once the
\* counter has been incremented past the largest value of its int, is a
\* position of the replica list, 0 .. N-1, so that no read call fails on it.
C17_IndexInRange ==
  /\ \A k \in 1 .. Len(selLog) : selLog[k][2] \in 0 .. (nrep - 1)
  /\ \A p \in Procs : pc[p] # "panic"

\* the read calls that have started and not yet written the counter
BeforeIncrement == {p \in Procs : pc[p] \in {"lock", "load", "store"}}

\* the calls that are not reads, by the name and the text of the call
NotARead(f, q) ==
  \/ f \in {"ExecContext", "BeginTx", "Close", "PingContext",
            "SetConnMaxLifetime", "SetMaxIdleConns", "SetMaxOpenConns"}
  \/ f = "PrepareContext" /\ q \notin SelectTexts

\* C18, the count: the counter is the number of read calls (query, query-row
\* and prepare of a read statement together) that have gone through their
\* increment: in particular, when a read call is back, whatever it returned
\* and however many replicas it attempted, and no other is on its way to the
\* increment, the counter is the number of read calls made.
C18_CountIsReadCalls ==
  /\ count = started - Cardinality(BeforeIncrement)
  /\ \A p \in Procs :
       (Returned(p) /\ InRead(p) /\ BeforeIncrement = {}) => count = started

\* C18, the steps: the counter changes in one step only, the write of
\* db.count++ in a read call, and by exactly one; no step of a walk and no
\* step that makes a call which is not a read (execute, begin, prepare of
\* another statement, ping, close, the pool settings) changes it.
C18_CountSteps ==
  /\ IF \E p \in Procs : pc[p] = "store" /\ pc'[p] = "rem" /\ InRead(p)
     THEN count' = count + 1
     ELSE count' = count
  /\ \A p \in Procs :
       (pc[p] = "idle" /\ pc'[p] = "idle" /\ NotARead(op'[p], query'[p])) =>
         count' = count /\ started' = started

InPing(p) == op[p] = "PingContext" /\ pc[p] \in {"go", "receive"}

\* p's health check is over: the call is back and each of its goroutines has
\* sent its response and ended
PingOver(p) ==
  /\ PingReturned(p)
  /\ \A i \in Replicas : pinger[p][i] = "done"

\* C19, the send: a goroutine that has its response ready finds room in the
\* channel, whether the call still starts goroutines or already collects:
\* the responses in the channel are fewer than its capacity, which is N.
C19_SendNeverBlocks ==
  \A p \in Procs :
    /\ InPing(p) => pingChan[p].cap = nrep
    /\ \A i \in Replicas :
         pinger[p][i] = "send" =>
           /\ ~pingChan[p].closed
           /\ Len(pingChan[p].buf) < nrep

\* C19: when every ping returns and the scheduler is fair, a health check
\* that goroutine 1 (the one that calls Ping) has started returns, with
\* every goroutine it started ended; no goroutine ever waits for room in the
\* channel.
C19_PingTerminates ==
  /\ []C19_SendNeverBlocks
  /\ InPing(1) ~> PingOver(1)

\* C19 witness: the three goroutines have all put their responses on the
\* channel before the call has made its first receive
C19_Witness ==
  /\ nrep = 3
  /\ pc[1] = "go"
  /\ Len(pingChan[1].buf) = 3
  /\ \A i \in 0 .. 2 : pinger[1][i] = "done"

====
